---- MODULE Spec2Model ----
(***************************************************************************)
(* A model of the timeline editor's algorithmic core: the waveform / beat  *)
(* analysis pass of AudioPlayer, the row layout of Timeline, and the       *)
(* auto-follow viewport controller with its seek and drag handlers.        *)
(*                                                                         *)
(* Numbers.  JavaScript numbers are modelled in fixed point:               *)
(*   - amplitudes (samples, waveform points, energies) in units of 1/Unit, *)
(*     so 1.0 is Unit and 0.1 is Unit \div 10;                             *)
(*   - times in milliseconds, pixel positions in tenths of a CSS pixel,    *)
(*     zoom factors in thousandths.                                        *)
(* A sample buffer is run-length encoded: a sequence of runs [n, v], n     *)
(* consecutive samples of value v.  Every Float32Array has such a form.    *)
(***************************************************************************)
EXTENDS Integers, Sequences, FiniteSets, TLC

Unit == 100

\* ----------------------------------------------------------------- bounds
MaxPasses == 2
MaxRuns == 2
MaxNow == 6300
EditorMaxNow == 2100
TickMs == 2100
MaxCommands == 3

\* ------------------------------------------------------ program constants
MaxWaveformPoints == 1500
BlockDivisor == 1024
FallbackLength == 100
BasicSamples == 1000
QuietTimerMs == 2100
QuietMs == 2000

\* ---------------------------------------------------------------- helpers
Abs(x) == IF x < 0 THEN -x ELSE x

Max(a, b) == IF a >= b THEN a ELSE b

Min(a, b) == IF a <= b THEN a ELSE b

\* Math.sqrt, rounded down to the fixed-point grid.
Isqrt(n) == CHOOSE r \in 0..(2 * Unit) : r * r <= n /\ n < (r + 1) * (r + 1)

\* ------------------------------------------------------- sample buffers
RECURSIVE RunsLen(_)
RunsLen(runs) ==
    IF runs = <<>> THEN 0 ELSE Head(runs).n + RunsLen(Tail(runs))

\* audioBuffer.length / rawData.length
BufLen(buf) == RunsLen(buf.runs)

\* How many samples of the run [off, off + n) lie in [lo, hi).
Overlap(off, n, lo, hi) == Max(0, Min(off + n, hi) - Max(off, lo))

\* rms += sample * sample over j in [lo, hi)
RECURSIVE SumSq(_, _, _, _)
SumSq(runs, off, lo, hi) ==
    IF runs = <<>> THEN 0
    ELSE LET r == Head(runs)
         IN  Overlap(off, r.n, lo, hi) * r.v * r.v
               + SumSq(Tail(runs), off + r.n, lo, hi)

\* peak = Math.max(peak, absSample) over j in [lo, hi)
RECURSIVE Peak(_, _, _, _)
Peak(runs, off, lo, hi) ==
    IF runs = <<>> THEN 0
    ELSE LET r == Head(runs)
             rest == Peak(Tail(runs), off + r.n, lo, hi)
         IN  IF Overlap(off, r.n, lo, hi) > 0 THEN Max(Abs(r.v), rest) ELSE rest

\* ------------------------------------------- generateAdvancedWaveform
\* const samples = Math.min(1500, Math.floor(audioBuffer.length / 1024))
BlockCount(len) == Min(MaxWaveformPoints, len \div BlockDivisor)

\* const blockSize = Math.floor(rawData.length / samples); with samples = 0
\* the quotient is Infinity or NaN and the block loop never runs.
BlockSize(len, samples) == IF samples = 0 THEN 0 ELSE len \div samples

BlockStart(buf, i) == BlockSize(BufLen(buf), BlockCount(BufLen(buf))) * i

BlockEnd(buf, i) ==
    Min(BlockStart(buf, i) + BlockSize(BufLen(buf), BlockCount(BufLen(buf))),
        BufLen(buf))

\* rms = Math.sqrt(rms / (blockEnd - blockStart)), for block i (from 0)
BlockRms(buf, i) ==
    Isqrt(SumSq(buf.runs, 0, BlockStart(buf, i), BlockEnd(buf, i))
            \div (BlockEnd(buf, i) - BlockStart(buf, i)))

\* const amplitude = Math.max(peak, rms * 2)
BlockAmplitude(buf, i) ==
    Max(Peak(buf.runs, 0, BlockStart(buf, i), BlockEnd(buf, i)),
        Isqrt((4 * SumSq(buf.runs, 0, BlockStart(buf, i), BlockEnd(buf, i)))
                \div (BlockEnd(buf, i) - BlockStart(buf, i))))

\* waveformPoints after the block loop
WaveformPoints(buf) ==
    [k \in 1..BlockCount(BufLen(buf)) |-> BlockAmplitude(buf, k - 1)]

\* Math.max(...waveformPoints) over points[lo..hi]; -Infinity for no points,
\* which no point reads.  Evaluated by halving to keep the evaluation shallow.
RECURSIVE MaxOf(_, _, _)
MaxOf(points, lo, hi) ==
    IF lo > hi THEN -1
    ELSE IF lo = hi THEN points[lo]
    ELSE Max(MaxOf(points, lo, (lo + hi) \div 2),
             MaxOf(points, (lo + hi) \div 2 + 1, hi))

\* waveformPoints.map(val => maxVal > 0 ? val / maxVal : 0)
Normalize(points) ==
    LET maxVal == MaxOf(points, 1, Len(points))
    IN  [k \in 1..Len(points) |->
            IF maxVal > 0 THEN (points[k] * Unit) \div maxVal ELSE 0]

\* A variant of the iteration that stamps a beat with the end of its block.
BeatStepAtBlockEnd(buf, i, st) ==
    LET energy == BlockRms(buf, i)
        isBeat == energy * 10 > st.previousEnergy * 13 /\ energy * 10 > Unit
        beat == [time |-> ((i + 1) * buf.dur) \div BlockCount(BufLen(buf)),
                 strength |-> [num |-> energy, den |-> st.previousEnergy]]
    IN  [previousEnergy |-> (energy * 7 + st.previousEnergy * 3) \div 10,
         beats |-> IF isBeat THEN Append(st.beats, beat) ELSE st.beats]

\* A variant of the iteration that leaves previousEnergy alone on a beat.
BeatStepHoldingOnBeat(buf, i, st) ==
    LET energy == BlockRms(buf, i)
        isBeat == energy * 10 > st.previousEnergy * 13 /\ energy * 10 > Unit
        beat == [time |-> (i * buf.dur) \div BlockCount(BufLen(buf)),
                 strength |-> [num |-> energy, den |-> st.previousEnergy]]
    IN  [previousEnergy |-> IF isBeat THEN st.previousEnergy
                            ELSE (energy * 7 + st.previousEnergy * 3) \div 10,
         beats |-> IF isBeat THEN Append(st.beats, beat) ELSE st.beats]

\* One iteration of the block loop for beat detection, on the loop state
\* st = [previousEnergy, beats]:
\*   if (energy > previousEnergy * beatThreshold && energy > 0.1) beats.push(..)
\*   previousEnergy = energy * 0.7 + previousEnergy * 0.3
\* A beat keeps its strength as the pair energy / previousEnergy.
BeatStep(buf, i, st) ==
    LET energy == BlockRms(buf, i)
        isBeat == energy * 10 > st.previousEnergy * 13 /\ energy * 10 > Unit
        beat == [time |-> (i * buf.dur) \div BlockCount(BufLen(buf)),
                 strength |-> [num |-> energy, den |-> st.previousEnergy]]
    IN  [previousEnergy |-> (energy * 7 + st.previousEnergy * 3) \div 10,
         beats |-> IF isBeat THEN Append(st.beats, beat) ELSE st.beats]

\* for (let i = lo; i < hi; i++) BeatStep, in order.  The loop is unrolled by
\* halving, the first half being evaluated before the second starts.
RECURSIVE BeatLoop(_, _, _, _)
BeatLoop(buf, lo, hi, st) ==
    IF lo >= hi THEN st
    ELSE IF hi = lo + 1 THEN BeatStep(buf, lo, st)
    ELSE LET firstHalf == BeatLoop(buf, lo, (lo + hi) \div 2, st)
         IN  IF firstHalf.previousEnergy >= 0
             THEN BeatLoop(buf, (lo + hi) \div 2, hi, firstHalf)
             ELSE firstHalf

\* let previousEnergy = 0; const beats = []; then the loop over all blocks
DetectBeats(buf) ==
    BeatLoop(buf, 0, BlockCount(BufLen(buf)),
             [previousEnergy |-> 0, beats |-> <<>>]).beats

\* The value written by the try block of one pass over a decoded buffer.
Analyze(buf) ==
    [waveform |-> Normalize(WaveformPoints(buf)),
     beats |-> DetectBeats(buf)]

\* catch: setWaveformData(new Array(100).fill(0.1)); setBeatData([])
Fallback ==
    [waveform |-> [k \in 1..FallbackLength |-> Unit \div 10], beats |-> <<>>]

\* ------------------------------------------------ generateWaveform (basic)
\* The earlier revision of the analysis: 1000 points of mean |sample|.
\* sum += Math.abs(value) over j in [lo, hi)
RECURSIVE SumAbs(_, _, _, _)
SumAbs(runs, off, lo, hi) ==
    IF runs = <<>> THEN 0
    ELSE LET r == Head(runs)
         IN  Overlap(off, r.n, lo, hi) * Abs(r.v)
               + SumAbs(Tail(runs), off + r.n, lo, hi)

\* filteredData.push(sum / blockSize) for each of the 1000 blocks; with
\* blockSize = 0 the quotient is NaN, which the normalisation maps to 0.
BasicPoints(buf) ==
    LET blockSize == BufLen(buf) \div BasicSamples
    IN  [k \in 1..BasicSamples |->
            IF blockSize = 0 THEN 0
            ELSE SumAbs(buf.runs, 0, blockSize * (k - 1), blockSize * k)
                   \div blockSize]

\* setWaveformData(normalizedData) of the basic revision
GenerateWaveform(buf) == Normalize(BasicPoints(buf))

\* ------------------------------------------------------- Timeline: layout
\* Times and durations are in ms.
LightTypes == {"BarsA", "HeadsA"}

\* getCommandDuration: fadeSpeed ?? 1 for the fades, 2 for Color, 3 for Cue,
\* 0.1 for every other type
getCommandDuration(command) ==
    CASE command.type \in {"FadeOn", "FadeOff"} ->
            IF "fadeSpeed" \in DOMAIN command.parameters
            THEN command.parameters.fadeSpeed
            ELSE 1000
      [] command.type = "Color" -> 2000
      [] command.type = "Cue" -> 3000
      [] OTHER -> 100

CommandEnd(command) == command.time + getCommandDuration(command)

\* Array.prototype.sort((a, b) => a.time - b.time): stable
InsertByTime(sorted, command) ==
    LET before == SelectSeq(sorted, LAMBDA c : c.time <= command.time)
        after == SelectSeq(sorted, LAMBDA c : c.time > command.time)
    IN  before \o <<command>> \o after

RECURSIVE SortByTime(_)
SortByTime(cmds) ==
    IF cmds = <<>> THEN <<>>
    ELSE InsertByTime(SortByTime(SubSeq(cmds, 1, Len(cmds) - 1)), cmds[Len(cmds)])

\* A variant that compares with the start of the last command of the track.
FitsAfterStart(command, lastCommandInTrack) ==
    command.time >= lastCommandInTrack.time

\* if (commandStart >= lastCommandEnd)
FitsAfter(command, lastCommandInTrack) ==
    command.time >= CommandEnd(lastCommandInTrack)

\* A variant that takes the last track the command fits in.
PlaceInLastFittingTrack(tracks, command) ==
    LET fits == {t \in DOMAIN tracks :
                    FitsAfter(command, tracks[t][Len(tracks[t])])}
    IN  IF fits = {} THEN Append(tracks, <<command>>)
        ELSE LET t == CHOOSE u \in fits : \A v \in fits : u >= v
             IN  [tracks EXCEPT ![t] = Append(@, command)]

\* the body of the loop over lightCommands: the first track the command fits
\* in, else a new track
PlaceInTrack(tracks, command) ==
    LET fits == {t \in DOMAIN tracks :
                    FitsAfter(command, tracks[t][Len(tracks[t])])}
    IN  IF fits = {} THEN Append(tracks, <<command>>)
        ELSE LET t == CHOOSE u \in fits : \A v \in fits : u <= v
             IN  [tracks EXCEPT ![t] = Append(@, command)]

RECURSIVE PlaceAll(_, _)
PlaceAll(tracks, lightCommands) ==
    IF lightCommands = <<>> THEN tracks
    ELSE PlaceAll(PlaceInTrack(tracks, Head(lightCommands)), Tail(lightCommands))

\* commands.filter(cmd => cmd.parameters.lightType === lightType)
LightCommands(cmds, lightType) ==
    SelectSeq(cmds, LAMBDA c : c.parameters.lightType = lightType)

organizeCommandsIntoTracks(cmds, lightType) ==
    PlaceAll(<<>>, SortByTime(LightCommands(cmds, lightType)))

\* --------------------------------------------- Timeline: pixels and times
\* Pixel positions and widths are in tenths of a pixel.
ContainerWidth == 6000

\* floor(a * b / c) for a, b >= 0 and c > 0, digit by digit of b in base 16:
\* a * b is never formed, so that long durations and wide tracks stay within
\* the integers of the evaluation (a and c below 2^26).  The pair is
\* a * b = q * c + r with 0 <= r < c.
RECURSIVE MulDivRem(_, _, _)
MulDivRem(a, b, c) ==
    IF b = 0 THEN [q |-> 0, r |-> 0]
    ELSE LET rest == MulDivRem(a, b \div 16, c)
             low == a * (b % 16)
             r == 16 * rest.r + (low % c)
         IN  [q |-> 16 * rest.q + (low \div c) + (r \div c), r |-> r % c]

MulDiv(a, b, c) ==
    IF b = 0 \/ Abs(a) <= 2147483647 \div b THEN (a * b) \div c
    ELSE IF a >= 0 THEN MulDivRem(a, b, c).q
    ELSE -(MulDivRem(-a, b, c).q + (IF MulDivRem(-a, b, c).r > 0 THEN 1 ELSE 0))

\* duration * 60 * zoom, in tenths of a pixel
ScaledWidth(dur, z) == MulDiv(dur * 6, z, 10000)

\* Math.min(20000, Math.max(800, duration * 60 * zoom))
timelineWidth(dur, z) == Min(200000, Max(8000, ScaledWidth(dur, z)))

\* Math.max(800, duration * 60 * zoom)
waveformDisplayWidth(dur, z) == Max(8000, ScaledWidth(dur, z))

ViewWidth(v, dur, z) ==
    IF v = "timeline" THEN timelineWidth(dur, z) ELSE waveformDisplayWidth(dur, z)

\* (time / duration) * timelineWidth, 0 when duration is 0
timeToPixel(time, dur, width) ==
    IF dur = 0 THEN 0 ELSE MulDiv(time, width, dur)

\* (pixel / timelineWidth) * duration, 0 when duration is 0
\* A variant that takes the track to be 800 px wide whatever the zoom.
pixelToTimeAt800(pixel, dur, width) ==
    IF dur = 0 THEN 0 ELSE MulDiv(pixel, dur, 8000)

pixelToTime(pixel, dur, width) ==
    IF dur = 0 THEN 0 ELSE MulDiv(pixel, dur, width)

\* A variant of the clamp without the upper limit.
ClampTimeBelow(time, dur) == Max(0, time)

\* Math.max(0, Math.min(duration, time))
ClampTime(time, dur) == Max(0, Min(dur, time))

\* ------------------------------------------------------------ audio sources
\* Run lengths and sample values the model draws decoded buffers from.
RunLens == {1, 512, 1024, 2048}

SampleVals == {0, 5, 100, -50}

Runs == [n : RunLens, v : SampleVals]

\* A decoded AudioBuffer: its channel-0 samples and its duration in ms
\* (length / sampleRate at 44.1 kHz).
MkBuffer(runs) == [runs |-> runs, dur |-> (RunsLen(runs) * 1000) \div 44100]

RECURSIVE RunSeqs(_)
RunSeqs(k) ==
    IF k = 0 THEN {<<>>}
    ELSE RunSeqs(k - 1)
           \cup {Append(q, r) : q \in {t \in RunSeqs(k - 1) : Len(t) = k - 1},
                                r \in Runs}

\* Buffers long enough for the cap of 1500 blocks to apply.
LongBuffers ==
    {MkBuffer(<<[n |-> 1024, v |-> 100], [n |-> 1536000, v |-> 5]>>),
     MkBuffer(<<[n |-> 1536000, v |-> 0], [n |-> 1024, v |-> 100]>>)}

Buffers == {MkBuffer(q) : q \in RunSeqs(MaxRuns) \ {<<>>}} \cup LongBuffers

\* An audio source (audioUrl / audioFile): what decodeAudioData makes of it.
\* A source that cannot be decoded carries no buffer.
Decodable(buf) == [ok |-> TRUE, buf |-> buf]

Corrupt == [ok |-> FALSE, buf |-> MkBuffer(<<>>)]

AllSources == {Decodable(b) : b \in Buffers} \cup {Corrupt}

\* The sources of the concurrency specification: a silent buffer of 2048
\* samples, a loud one, and an undecodable file.
Silent2048 == MkBuffer(<<[n |-> 2048, v |-> 0]>>)

Library ==
    {Decodable(Silent2048),
     Decodable(MkBuffer(<<[n |-> 1024, v |-> 5], [n |-> 2048, v |-> 100]>>)),
     Corrupt}

\* A song of some 14 s with one loud block at its end, and a short clip.
LongSong == MkBuffer(<<[n |-> 614400, v |-> 5], [n |-> 1024, v |-> 100]>>)

ShortClip == MkBuffer(<<[n |-> 2048, v |-> 100]>>)

Songs == {Decodable(LongSong), Decodable(ShortClip)}

\* The analysis of every buffer of the model, computed once.
AnalysisTable ==
    {[buf |-> b, result |-> Analyze(b)] : b \in Buffers \cup {LongSong, ShortClip}}

AnalysisOf(buf) == (CHOOSE r \in AnalysisTable : r.buf = buf).result

NoSource == [ok |-> FALSE, buf |-> MkBuffer(<<[n |-> 1, v |-> 0]>>)]

\* ------------------------------------------------------------------ state
Views == {"timeline", "waveform"}

NoTimer == {}

NoCommand == [id |-> "null"]

VARIABLES
    \* AudioPlayer: analysis
    audioSrc,            \* the audioUrl / audioFile props
    passes,              \* the calls of the analysis function, in call order
    waveformData,        \* useState<number[]>([])
    beatData,            \* useState<BeatData[]>([])
    isLoadingWaveform,   \* useState(false)
    \* MusicTimeline: playback state handed down as props; the wall clock
    now,                 \* Date.now(), in ms since the page was opened
    duration,            \* useState(0), ms
    currentTime,         \* useState(0), ms
    isPlaying,           \* useState(false)
    zoom,                \* useState(1), in thousandths
    \* One scrolling view: the Timeline or the AudioPlayer waveform
    view,                \* which of the two components the view state is of
    isUserScrolling,     \* isUserScrolling / isUserScrollingWaveform
    lastScrollTime,      \* lastScrollTime / lastWaveformScrollTime
    timers,              \* the due times of the pending quiet-period timeouts
    scrollLeft,          \* scrollContainer.scrollLeft
    scrollTarget,        \* where a scrollTo under way is heading, or -1
    \* MusicTimeline / Timeline: the command list and the drag
    commands,            \* useState<StacyCommand[]>([])
    isDragging,          \* useState(false)
    dragCommand,         \* useState<StacyCommand | null>(null)
    dragOffset,          \* useState(0)
    selectedCommand,     \* useState<StacyCommand | null>(null)
    \* history: the last event handled and the mode it arrived in
    lastEvent

analysisVars == <<audioSrc, passes, waveformData, beatData, isLoadingWaveform>>

propVars == <<now, duration, currentTime, isPlaying, zoom>>

viewVars ==
    <<view, isUserScrolling, lastScrollTime, timers, scrollLeft, scrollTarget>>

editorVars == <<commands, isDragging, dragCommand, dragOffset, selectedCommand>>

vars == <<analysisVars, propVars, viewVars, editorVars, lastEvent>>

\* The state after the first render, for either component.
Init ==
    /\ audioSrc = NoSource
    /\ passes = <<>>
    /\ waveformData = <<>>
    /\ beatData = <<>>
    /\ isLoadingWaveform = FALSE
    /\ now = 0
    /\ duration = 0
    /\ currentTime = 0
    /\ isPlaying = FALSE
    /\ zoom = 1000
    /\ view \in Views
    /\ isUserScrolling = FALSE
    /\ lastScrollTime = 0
    /\ timers = NoTimer
    /\ scrollLeft = 0
    /\ scrollTarget = -1
    /\ commands = <<>>
    /\ isDragging = FALSE
    /\ dragCommand = NoCommand
    /\ dragOffset = 0
    /\ selectedCommand = NoCommand
    /\ lastEvent = [name |-> "init", scrolling |-> FALSE]

\* ----------------------------------------------- the analysis pass, by step
\* A pass is at "fetch" (awaiting arrayBuffer), "decode" (awaiting
\* decodeAudioData), "close" (awaiting audioContext.close), "done" or
\* "failed"; wrote tells what it stored: "none", "analysis" or "fallback".
SetPass(p, pc, wrote) ==
    passes' = [passes EXCEPT ![p] = [src |-> @.src, pc |-> pc, wrote |-> wrote]]

\* The event being handled, and whether the view was in manual override
\* when it arrived.
Event(name) == [name |-> name, scrolling |-> isUserScrolling]

NotAnalysis(event) ==
    /\ lastEvent' = Event(event)
    /\ UNCHANGED <<propVars, viewVars, editorVars>>

\* The source props change (handleFileUpload makes a fresh object URL each
\* time); the effect on [audioUrl, audioFile] calls generateAdvancedWaveform,
\* which runs to its first await.
SourceChangeIn(sources, limit) ==
    \E s \in sources :
        /\ Len(passes) < limit
        /\ audioSrc' = s
        /\ passes' = Append(passes, [src |-> s, pc |-> "fetch", wrote |-> "none"])
        /\ isLoadingWaveform' = TRUE
        /\ UNCHANGED <<waveformData, beatData>>
        /\ NotAnalysis("sourceChange")

\* await audioFile.arrayBuffer() / fetch(...).arrayBuffer() resolves
FetchDone(p) ==
    /\ passes[p].pc = "fetch"
    /\ SetPass(p, "decode", "none")
    /\ UNCHANGED <<audioSrc, waveformData, beatData, isLoadingWaveform>>
    /\ NotAnalysis("fetched")

\* catch (error) { setWaveformData(new Array(100).fill(0.1)); setBeatData([]) }
\* finally { setIsLoadingWaveform(false) }
CatchFinally(p) ==
    /\ waveformData' = Fallback.waveform
    /\ beatData' = Fallback.beats
    /\ isLoadingWaveform' = FALSE
    /\ SetPass(p, "failed", "fallback")
    /\ UNCHANGED audioSrc
    /\ NotAnalysis("analysisFailed")

\* the fetch or the read of the file rejects
FetchFail(p) ==
    /\ passes[p].pc = "fetch"
    /\ CatchFinally(p)

\* decodeAudioData rejects
DecodeFail(p) ==
    /\ passes[p].pc = "decode"
    /\ ~passes[p].src.ok
    /\ CatchFinally(p)

\* decodeAudioData resolves: the block loop, normalisation, setWaveformData,
\* setBeatData, then await audioContext.close()
DecodeDone(p) ==
    /\ passes[p].pc = "decode"
    /\ passes[p].src.ok
    /\ waveformData' = AnalysisOf(passes[p].src.buf).waveform
    /\ beatData' = AnalysisOf(passes[p].src.buf).beats
    /\ SetPass(p, "close", "analysis")
    /\ UNCHANGED <<audioSrc, isLoadingWaveform>>
    /\ NotAnalysis("analysed")

\* audioContext.close() resolves; finally { setIsLoadingWaveform(false) }
CloseDone(p) ==
    /\ passes[p].pc = "close"
    /\ isLoadingWaveform' = FALSE
    /\ SetPass(p, "done", passes[p].wrote)
    /\ UNCHANGED <<audioSrc, waveformData, beatData>>
    /\ NotAnalysis("closed")

\* ------------------------------- the basic revision's pass (generateWaveform)
\* A new audioUrl; the audio element fires loadedmetadata and
\* handleLoadedMetadata calls onDurationChange(audio.duration || 0) and
\* generateWaveform(), which runs to its first await.
BasicLoadedMetadataIn(sources, limit) ==
    \E s \in sources :
        /\ Len(passes) < limit
        /\ audioSrc' = s
        /\ duration' = IF s.ok THEN s.buf.dur ELSE 0
        /\ passes' = Append(passes, [src |-> s, pc |-> "fetch", wrote |-> "none"])
        /\ isLoadingWaveform' = TRUE
        /\ lastEvent' = Event("loadedmetadata")
        /\ UNCHANGED <<waveformData, beatData, now, currentTime, isPlaying, zoom,
                       viewVars, editorVars>>

\* await fetch(audioUrl), await response.arrayBuffer() resolve
BasicFetchDone(p) ==
    /\ passes[p].pc = "fetch"
    /\ SetPass(p, "decode", "none")
    /\ UNCHANGED <<audioSrc, waveformData, beatData, isLoadingWaveform>>
    /\ NotAnalysis("fetched")

\* catch (error) { console.error(...) } finally { setIsLoadingWaveform(false) }
BasicFail(p) ==
    /\ \/ passes[p].pc = "fetch"
       \/ passes[p].pc = "decode" /\ ~passes[p].src.ok
    /\ isLoadingWaveform' = FALSE
    /\ SetPass(p, "failed", "none")
    /\ UNCHANGED <<audioSrc, waveformData, beatData>>
    /\ NotAnalysis("analysisFailed")

\* decodeAudioData resolves: the 1000 blocks, setWaveformData,
\* audioContext.close() unawaited, finally { setIsLoadingWaveform(false) }
BasicDecodeDone(p) ==
    /\ passes[p].pc = "decode"
    /\ passes[p].src.ok
    /\ waveformData' = GenerateWaveform(passes[p].src.buf)
    /\ isLoadingWaveform' = FALSE
    /\ SetPass(p, "done", "analysis")
    /\ UNCHANGED <<audioSrc, beatData>>
    /\ NotAnalysis("analysed")

\* ----------------------------------------------------- the scrolling view
\* A variant that follows the playhead in manual override too.
AutoScrollInOverride(playing, scrolling, dur) == playing /\ dur # 0

\* if (!isPlaying || isUserScrolling || !scrollContainerRef.current || !duration) return
AutoScrollRuns(playing, scrolling, dur) == playing /\ ~scrolling /\ dur # 0

\* scrollTo({ left, behavior: 'smooth' }): the browser keeps left within the
\* scrollable range and starts nothing if it is already there.
ScrollTo(left, width) ==
    LET reachable == Min(left, Max(0, width - ContainerWidth))
    IN  IF reachable = scrollLeft' THEN -1 ELSE reachable

\* A variant of the auto-scroll effect that recenters on every run, without
\* the test of the margins.
AutoScrollEveryUpdate(target) ==
    LET width == ViewWidth(view, duration', zoom')
        playheadPosition == timeToPixel(currentTime', duration', width)
    IN  IF <<currentTime', isPlaying', zoom', duration', isUserScrolling'>>
             = <<currentTime, isPlaying, zoom, duration, isUserScrolling>>
        THEN target
        ELSE IF ~AutoScrollRuns(isPlaying', isUserScrolling', duration')
        THEN target
        ELSE ScrollTo(Max(0, playheadPosition - ContainerWidth \div 2), width)

\* The auto-scroll effect. It runs after a render that changed one of
\* [currentTime, isPlaying, width, duration, isUserScrolling]; target is where
\* a scrollTo was heading before it ran.
AutoScroll(target) ==
    LET width == ViewWidth(view, duration', zoom')
        playheadPosition == timeToPixel(currentTime', duration', width)
        margin == ContainerWidth \div 10
        leftEdge == scrollLeft'
        rightEdge == scrollLeft' + ContainerWidth
    IN  IF <<currentTime', isPlaying', zoom', duration', isUserScrolling'>>
             = <<currentTime, isPlaying, zoom, duration, isUserScrolling>>
        THEN target
        ELSE IF ~AutoScrollRuns(isPlaying', isUserScrolling', duration')
        THEN target
        ELSE IF \/ playheadPosition < leftEdge + margin
                \/ playheadPosition > rightEdge - margin
        THEN ScrollTo(Max(0, playheadPosition - ContainerWidth \div 2), width)
        ELSE target

\* A variant whose quiet period is as long as the timeout.
QuietElapsedLate(t, last) == t - last > QuietTimerMs

\* if (Date.now() - lastScrollTime > 2000)
QuietElapsed(t, last) == t - last > QuietMs

\* The timeouts the body of the quiet-period effect sets when it runs at time
\* t with the flag at scrolling: none if (!isUserScrolling) return, else one
\* due 2100 ms later.
QuietTimeout(scrolling, t) ==
    IF scrolling THEN {t + QuietTimerMs} ELSE NoTimer

\* A variant of the effect without return () => clearTimeout(timeout).
QuietTimerUncleared(pending) ==
    IF isUserScrolling' = isUserScrolling /\ lastScrollTime' = lastScrollTime
    THEN pending
    ELSE pending \cup QuietTimeout(isUserScrolling', now')

\* The quiet-period effect. It runs after a render that changed one of
\* [isUserScrolling, lastScrollTime]: its cleanup clears the timeout of its
\* previous run, if that is still pending, and its body may set a new one.
QuietTimer(pending) ==
    IF isUserScrolling' = isUserScrolling /\ lastScrollTime' = lastScrollTime
    THEN pending
    ELSE QuietTimeout(isUserScrolling', now')

\* The two effects of the view, after a handler that left the scrollTo target
\* at target.
Effects(target) ==
    /\ scrollTarget' = AutoScroll(target)
    /\ timers' = QuietTimer(timers)

\* handleScroll: setIsUserScrolling(true); setLastScrollTime(Date.now())
handleScroll ==
    /\ isUserScrolling' = TRUE
    /\ lastScrollTime' = now
    /\ UNCHANGED <<view, propVars, analysisVars, editorVars>>
    /\ timers' = QuietTimer(timers)

ScrollPositions == {0, 2000}

\* The user scrolls the container (wheel, scrollbar, touch); a scrollTo
\* under way is abandoned.
UserScroll ==
    \E left \in ScrollPositions :
        /\ now + QuietTimerMs + TickMs <= MaxNow
        /\ left # scrollLeft
        /\ left <= ViewWidth(view, duration, zoom) - ContainerWidth
        /\ scrollLeft' = left
        /\ scrollTarget' = -1
        /\ handleScroll
        /\ lastEvent' = Event("scroll")

\* The browser carries a scrollTo to its end and fires a scroll event.
BrowserScroll ==
    \E left \in {scrollTarget} :
        /\ now + QuietTimerMs + TickMs <= MaxNow
        /\ scrollTarget # -1
        /\ left # scrollLeft
        /\ scrollLeft' = left
        /\ scrollTarget' = IF left = scrollTarget THEN -1 ELSE scrollTarget
        /\ handleScroll
        /\ lastEvent' = Event("scrollTo")

\* The wall clock advances.
TickTo(limit) ==
    /\ now + TickMs <= limit
    /\ now' = now + TickMs
    /\ lastEvent' = Event("tick")
    /\ UNCHANGED <<duration, currentTime, isPlaying, zoom, viewVars,
                   analysisVars, editorVars>>

\* The timeout of the quiet-period effect fires, at or after its due time.
TimerFire ==
    \E due \in timers :
        /\ now >= due
        /\ isUserScrolling' =
              IF QuietElapsed(now, lastScrollTime) THEN FALSE ELSE isUserScrolling
        /\ UNCHANGED <<view, lastScrollTime, scrollLeft, propVars, analysisVars,
                       editorVars>>
        /\ scrollTarget' = AutoScroll(scrollTarget)
        /\ timers' = QuietTimer(timers \ {due})
        /\ lastEvent' = Event("timer")

\* ------------------------------------------------ playback and the seeks
\* A handler that changes playback props only; the view's effects follow.
PropsOnly(event) ==
    /\ UNCHANGED <<now, view, isUserScrolling, lastScrollTime, scrollLeft,
                   analysisVars, editorVars>>
    /\ Effects(scrollTarget)
    /\ lastEvent' = Event(event)

\* durationchange / loadedmetadata of the audio element:
\* onDurationChange(audio.duration ?? 0)
DurationChange(d) ==
    /\ d # duration
    /\ duration' = d
    /\ UNCHANGED <<currentTime, isPlaying, zoom>>
    /\ PropsOnly("durationChange")

\* togglePlay: onPlayStateChange(!isPlaying)
togglePlay ==
    /\ isPlaying' = ~isPlaying
    /\ UNCHANGED <<duration, currentTime, zoom>>
    /\ PropsOnly("togglePlay")

PlayStep == 5000

\* timeupdate of the audio element while it plays:
\* onTimeUpdate(audio.currentTime)
TimeUpdate ==
    /\ isPlaying
    /\ currentTime < duration
    /\ currentTime' = Min(duration, currentTime + PlayStep)
    /\ UNCHANGED <<duration, isPlaying, zoom>>
    /\ PropsOnly("timeUpdate")

\* A variant of the timeline's buttons without the limits 4 and 0.1.
TimelineZoomsUnclamped == {(zoom * 3) \div 2, (zoom * 2) \div 3, 1000}

\* The zoom buttons of the Timeline: Math.min(4, zoom * 1.5),
\* Math.max(0.1, zoom / 1.5), 1
TimelineZooms == {Min(4000, (zoom * 3) \div 2), Max(100, (zoom * 2) \div 3), 1000}

\* The zoom buttons of the waveform: Math.min(4, zoom * 1.2),
\* Math.max(0.1, zoom / 1.2), 1
WaveformZooms == {Min(4000, (zoom * 6) \div 5), Max(100, (zoom * 5) \div 6), 1000}

\* onZoomChange(z) from a zoom button of the view
ZoomChange(zooms) ==
    \E z \in zooms :
        /\ z # zoom
        /\ zoom' = z
        /\ UNCHANGED <<duration, currentTime, isPlaying>>
        /\ PropsOnly("zoom")

\* A variant of the seek that leaves the scrolling flag alone.
SeekWithoutResume(v, time, event) ==
    /\ currentTime' = time
    /\ UNCHANGED <<now, duration, isPlaying, zoom, view, isUserScrolling,
                   lastScrollTime, scrollLeft, analysisVars, editorVars>>
    /\ Effects(scrollTarget)
    /\ lastEvent' = Event(event)

\* A seek made in component v: the new time, and
\* setIsUserScrolling(false) in that component.
SeekIn(v, time, event) ==
    /\ currentTime' = time
    /\ isUserScrolling' = IF view = v THEN FALSE ELSE isUserScrolling
    /\ UNCHANGED <<now, duration, isPlaying, zoom, view, lastScrollTime,
                   scrollLeft, analysisVars, editorVars>>
    /\ Effects(scrollTarget)
    /\ lastEvent' = Event(event)

\* Pointer positions over an element of the given width: a pixel inside it
\* and its last whole pixel.
ClickPoints(width) == {2100, ((width - 1) \div 10) * 10}

\* handleTimelineClick: x = e.clientX - rect.left of the timeline element
handleTimelineClick ==
    \E x \in ClickPoints(timelineWidth(duration, zoom)) :
        /\ ~isDragging
        /\ SeekIn("timeline",
                  ClampTime(pixelToTime(x, duration,
                                        timelineWidth(duration, zoom)),
                            duration),
                  "timelineClick")

\* The scroll container of the waveform has a 1 px border (class "border"):
\* its bounding rect starts one pixel left of the canvas.
BorderWidth == 10

\* handleSeek: x = e.clientX - containerRect.left + scrollLeft, for a click
\* on canvas pixel p; newTime = (x / waveformDisplayWidth) * duration
handleSeek ==
    \E p \in ClickPoints(waveformDisplayWidth(duration, zoom)) :
        /\ duration # 0
        /\ SeekIn("waveform",
                  ((p + BorderWidth) * duration)
                      \div waveformDisplayWidth(duration, zoom),
                  "waveformClick")

\* The Follow Playhead button of the view: setIsUserScrolling(false), then
\* if (duration > 0) scrollTo(Math.max(0, playheadPosition - containerWidth / 2))
FollowPlayhead ==
    LET width == ViewWidth(view, duration, zoom)
        playheadPosition == timeToPixel(currentTime, duration, width)
    IN  /\ isUserScrolling' = FALSE
        /\ UNCHANGED <<view, lastScrollTime, scrollLeft, propVars, analysisVars,
                       editorVars>>
        /\ Effects(IF duration > 0
                   THEN ScrollTo(Max(0, playheadPosition - ContainerWidth \div 2),
                                 width)
                   ELSE scrollTarget)
        /\ lastEvent' = Event("followPlayhead")

\* beatData.find(beat => beat.time > currentTime + 0.1)
NextBeats == SelectSeq(beatData, LAMBDA beat : beat.time > currentTime + 100)

\* beatData.filter(beat => beat.time < currentTime - 0.1)
PreviousBeats == SelectSeq(beatData, LAMBDA beat : beat.time < currentTime - 100)

\* goToNextBeat: onTimeUpdate(nextBeat.time); setIsUserScrollingWaveform(false)
goToNextBeat ==
    /\ beatData # <<>>
    /\ NextBeats # <<>>
    /\ SeekIn("waveform", Head(NextBeats).time, "nextBeat")

\* goToPreviousBeat: the last beat before the current time, else 0
goToPreviousBeat ==
    /\ beatData # <<>>
    /\ SeekIn("waveform",
              IF PreviousBeats # <<>>
              THEN PreviousBeats[Len(PreviousBeats)].time
              ELSE 0,
              "previousBeat")

\* handleKeyPress of MusicTimeline: setCurrentTime on an arrow key, by 1 s,
\* or by 0.1 s with Shift; Home sets 0
KeySteps == {1000, 100}

KeyArrowLeft ==
    \E step \in KeySteps :
        /\ currentTime' = Max(0, currentTime - step)
        /\ UNCHANGED <<duration, isPlaying, zoom>>
        /\ PropsOnly("arrowLeft")

KeyArrowRight ==
    \E step \in KeySteps :
        /\ currentTime' = Min(duration, currentTime + step)
        /\ UNCHANGED <<duration, isPlaying, zoom>>
        /\ PropsOnly("arrowRight")

KeyHome ==
    /\ currentTime' = 0
    /\ UNCHANGED <<duration, isPlaying, zoom>>
    /\ PropsOnly("home")

\* A keydown with Ctrl or Cmd held reaches both listeners of window:
\* handleKeyDown of AudioPlayer, which jumps to a beat, and handleKeyPress of
\* MusicTimeline, which does not look at ctrlKey or metaKey and steps by 1 s
\* (0.1 s with Shift).  They run in the order of their registration, which
\* changes whenever the effect of one of them runs again.
ListenerOrders == {"beatFirst", "stepFirst"}

\* The time left by the two listeners.  Each reads beatData and currentTime
\* of its render; jump is the time the beat listener passes to onTimeUpdate
\* (none if found is false); stepped and steppedJump are what the updater of
\* the step listener makes of currentTime and of jump.
AfterBothListeners(order, found, jump, stepped, steppedJump) ==
    IF ~found THEN stepped
    ELSE IF order = "beatFirst" THEN steppedJump
    ELSE jump

\* Both listeners have run; the beat listener's seek, if any, also did
\* setIsUserScrollingWaveform(false).
CtrlKey(time, found, event) ==
    /\ currentTime' = time
    /\ isUserScrolling' =
          IF found /\ view = "waveform" THEN FALSE ELSE isUserScrolling
    /\ UNCHANGED <<now, duration, isPlaying, zoom, view, lastScrollTime,
                   scrollLeft, analysisVars, editorVars>>
    /\ Effects(scrollTarget)
    /\ lastEvent' = Event(event)

\* Ctrl/Cmd+ArrowRight
KeyCtrlArrowRight ==
    \E step \in KeySteps, order \in ListenerOrders :
        LET found == beatData # <<>> /\ NextBeats # <<>>
            jump == IF found THEN Head(NextBeats).time ELSE currentTime
            StepRight(prev) == Min(duration, prev + step)
        IN  CtrlKey(AfterBothListeners(order, found, jump,
                                       StepRight(currentTime), StepRight(jump)),
                    found, "ctrlArrowRight")

\* Ctrl/Cmd+ArrowLeft
KeyCtrlArrowLeft ==
    \E step \in KeySteps, order \in ListenerOrders :
        LET found == beatData # <<>>
            jump == IF PreviousBeats # <<>>
                    THEN PreviousBeats[Len(PreviousBeats)].time
                    ELSE 0
            StepLeft(prev) == Max(0, prev - step)
        IN  CtrlKey(AfterBothListeners(order, found, jump,
                                       StepLeft(currentTime), StepLeft(jump)),
                    found, "ctrlArrowLeft")

\* ------------------------------------------------------ the command list
\* Commands the effects panel hands to addCommand: a type and a lane, no
\* fadeSpeed.
PanelCommands ==
    {[type |-> t, parameters |-> [lightType |-> l]] :
        t \in {"FadeOn"}, l \in {"BarsA"}}

\* Commands of a project file (JSON.parse of the file, taken as it is).
ProjectCommands ==
    { [id |-> "a", time |-> 1000, type |-> "FadeOn",
       parameters |-> [lightType |-> "BarsA", fadeSpeed |-> 0]],
      [id |-> "b", time |-> 1000, type |-> "Color",
       parameters |-> [lightType |-> "BarsA"]],
      [id |-> "c", time |-> 500, type |-> "FadeOff",
       parameters |-> [lightType |-> "BarsA", fadeSpeed |-> 500]],
      [id |-> "d", time |-> 3000, type |-> "Cue",
       parameters |-> [lightType |-> "HeadsA", cueType |-> "State.Cue1",
                       cueValue |-> FALSE]] }

ProjectFile(ids, dur) ==
    [commands |-> [k \in DOMAIN ids |->
                      CHOOSE c \in ProjectCommands : c.id = ids[k]],
     duration |-> dur]

Projects ==
    { ProjectFile(<<"b", "a">>, 10000), ProjectFile(<<"a", "b">>, 10000),
      ProjectFile(<<"d", "c">>, 2000000), ProjectFile(<<"a">>, 0) }

\* `imported-${Date.now()}-${Math.random()}`
ImportedId(random) == "imported-" \o ToString(now) \o "-" \o ToString(random)

\* Math.random(): a draw is taken to differ from the draws behind the ids
\* in the list and from the other draws of the same script.
UnusedDraws ==
    {random \in 1..(Len(commands) + MaxCommands) :
        \A k \in DOMAIN commands : commands[k].id # ImportedId(random)}

RandomDraw(n) ==
    CHOOSE random \in UnusedDraws :
        Cardinality({u \in UnusedDraws : u < random}) = n - 1

\* Scripts of the import panel, one command per time key: a single command,
\* and three point effects at 1.0 s, 1.05 s and 2.0 s.
Scripts ==
    { <<[time |-> 2000, type |-> "On", parameters |-> [lightType |-> "BarsA"]]>>,
      <<[time |-> 1000, type |-> "On", parameters |-> [lightType |-> "BarsA"]],
        [time |-> 1050, type |-> "Off", parameters |-> [lightType |-> "BarsA"]],
        [time |-> 2000, type |-> "On", parameters |-> [lightType |-> "BarsA"]]>> }

\* parseJsonScript: a command with a fresh id per entry, sorted by time
parseJsonScript(script) ==
    SortByTime([k \in DOMAIN script |->
                   [id |-> ImportedId(RandomDraw(k)), time |-> script[k].time,
                    type |-> script[k].type,
                    parameters |-> script[k].parameters]])

\* The script of a single command.
EditorScripts == {script \in Scripts : Len(script) = 1}

\* A handler of MusicTimeline that changes the command list only.
CommandsOnly(event) ==
    /\ UNCHANGED <<propVars, viewVars, analysisVars, isDragging, dragCommand,
                   dragOffset, selectedCommand>>
    /\ lastEvent' = Event(event)

\* addCommand: id Date.now().toString(), time currentTime, then sort
addCommand ==
    \E command \in PanelCommands :
        /\ Len(commands) < MaxCommands
        /\ commands' = SortByTime(Append(commands,
                           [id |-> ToString(now), time |-> currentTime,
                            type |-> command.type,
                            parameters |-> command.parameters]))
        /\ CommandsOnly("addCommand")

\* The commands the Generate Prestaging button passes to onAddCommand, in the
\* order of its calls: an odd and an even Color per fixture type, four
\* position cues and two tilts.
FixtureTypes == <<"HeadsA", "HeadsB", "BarsA", "BarsB", "LEDsA", "LEDsB", "WashesA">>

PrestagingCommands ==
    [k \in 1..14 |-> [type |-> "Color",
                      parameters |-> [lightType |-> FixtureTypes[(k + 1) \div 2]]]]
    \o [k \in 1..4 |-> [type |-> "Cue",
                        parameters |-> [lightType |-> FixtureTypes[k]]]]
    \o [k \in 1..2 |-> [type |-> "Tilt",
                        parameters |-> [lightType |-> "WashesA"]]]

\* The calls of addCommand made by one event handler.  Each call reads the
\* commands of the render the handler belongs to (closure) and passes its
\* updatedCommands to setCommands; stored is the value last passed.
RECURSIVE AddCommands(_, _, _)
AddCommands(closure, stored, calls) ==
    IF calls = <<>> THEN stored
    ELSE AddCommands(closure,
                     SortByTime(Append(closure,
                         [id |-> ToString(now), time |-> currentTime,
                          type |-> Head(calls).type,
                          parameters |-> Head(calls).parameters])),
                     Tail(calls))

\* The onClick of Generate Prestaging
GeneratePrestaging ==
    /\ Len(commands) < MaxCommands
    /\ commands' = AddCommands(commands, commands, PrestagingCommands)
    /\ CommandsOnly("generatePrestaging")

\* commands.map(cmd => cmd.id === commandId ? { ...cmd, time } : cmd).sort(...)
updateCommand(commandId, time) ==
    SortByTime([k \in DOMAIN commands |->
                   IF commands[k].id = commandId
                   THEN [commands[k] EXCEPT !.time = time]
                   ELSE commands[k]])

\* deleteCommand: commands.filter(cmd => cmd.id !== commandId); the selection
\* is cleared if it is the command deleted
deleteCommand ==
    \E k \in DOMAIN commands :
        /\ commands' = SelectSeq(commands, LAMBDA c : c.id # commands[k].id)
        /\ selectedCommand' = IF selectedCommand.id = commands[k].id
                              THEN NoCommand ELSE selectedCommand
        /\ UNCHANGED <<propVars, viewVars, analysisVars, isDragging,
                       dragCommand, dragOffset>>
        /\ lastEvent' = Event("deleteCommand")

\* handleImportProject: setCommands(importedProject.commands); the duration
\* if it is > 0; setCurrentTime(0); setIsPlaying(false);
\* setSelectedCommand(null)
handleImportProject ==
    \E project \in Projects :
        /\ commands' = project.commands
        /\ duration' = IF project.duration > 0 THEN project.duration ELSE duration
        /\ currentTime' = 0
        /\ isPlaying' = FALSE
        /\ selectedCommand' = NoCommand
        /\ UNCHANGED <<now, zoom, view, isUserScrolling, lastScrollTime,
                       scrollLeft, analysisVars, isDragging, dragCommand,
                       dragOffset>>
        /\ Effects(scrollTarget)
        /\ lastEvent' = Event("importProject")

\* handleImportCommands: [...commands, ...importedCommands].sort(...), the
\* imported commands being those parsed from one of the scripts
handleImportCommandsIn(scripts) ==
    \E script \in scripts :
        /\ Len(commands) + Len(script) <= MaxCommands
        /\ commands' = SortByTime(commands \o parseJsonScript(script))
        /\ CommandsOnly("importCommands")

\* ----------------------------------------------------- Timeline: the drag
\* Pointer positions e.clientX - rect.left, the rect being that of the
\* timeline: left of it, inside it, right of it.
PointerXs == {-500, 2100, 9000}

\* handleCommandMouseDown on the block of a command: the offset is that of
\* the pointer from the block's left edge
handleCommandMouseDown ==
    \E k \in DOMAIN commands, offset \in {100} :
        /\ isDragging' = TRUE
        /\ dragCommand' = commands[k]
        /\ dragOffset' = offset
        /\ UNCHANGED <<commands, selectedCommand, propVars, viewVars,
                       analysisVars>>
        /\ lastEvent' = Event("mouseDown")

\* handleMouseMove: newTime = Math.max(0, Math.min(duration, pixelToTime(x)));
\* onCommandUpdate(dragCommand.id, { time: newTime })
handleMouseMove ==
    \E pointer \in PointerXs :
        /\ isDragging
        /\ dragCommand # NoCommand
        /\ commands' =
              updateCommand(dragCommand.id,
                  ClampTime(pixelToTime(pointer - dragOffset, duration,
                                        timelineWidth(duration, zoom)),
                            duration))
        /\ UNCHANGED <<isDragging, dragCommand, dragOffset, selectedCommand,
                       propVars, viewVars, analysisVars>>
        /\ lastEvent' = Event("mouseMove")

\* A variant of handleMouseUp that returns the dragged command to the time it
\* had at the mouse down.
handleMouseUpRestoring ==
    /\ isDragging
    /\ isDragging' = FALSE
    /\ dragCommand' = NoCommand
    /\ dragOffset' = 0
    /\ commands' = IF dragCommand = NoCommand THEN commands
                   ELSE updateCommand(dragCommand.id, dragCommand.time)
    /\ UNCHANGED <<selectedCommand, propVars, viewVars, analysisVars>>
    /\ lastEvent' = Event("mouseUp")

\* handleMouseUp: setIsDragging(false); setDragCommand(null); setDragOffset(0)
handleMouseUp ==
    /\ isDragging
    /\ isDragging' = FALSE
    /\ dragCommand' = NoCommand
    /\ dragOffset' = 0
    /\ UNCHANGED <<commands, selectedCommand, propVars, viewVars, analysisVars>>
    /\ lastEvent' = Event("mouseUp")

\* The onClick of a command block: onCommandSelect(command), which is
\* setSelectedCommand; the editor is handed this object until the next
\* selection
handleCommandClick ==
    \E k \in DOMAIN commands :
        /\ selectedCommand' = commands[k]
        /\ UNCHANGED <<commands, isDragging, dragCommand, dragOffset, propVars,
                       viewVars, analysisVars>>
        /\ lastEvent' = Event("select")

\* ------------------------------------------------------ the command editor
\* { ...a, ...b }
Spread(a, b) ==
    [f \in DOMAIN a \cup DOMAIN b |-> IF f \in DOMAIN b THEN b[f] ELSE a[f]]

\* updateCommand with updates given as an object:
\* commands.map(cmd => cmd.id === commandId ? { ...cmd, ...updates } : cmd)
\*         .sort((a, b) => a.time - b.time)
updateCommandWith(commandId, updates) ==
    SortByTime([k \in DOMAIN commands |->
                   IF commands[k].id = commandId
                   THEN Spread(commands[k], updates)
                   ELSE commands[k]])

\* An edit of the editor: onUpdate is
\* (updates) => updateCommand(selectedCommand.id, updates)
EditorUpdate(updates, event) ==
    /\ selectedCommand # NoCommand
    /\ commands' = updateCommandWith(selectedCommand.id, updates)
    /\ CommandsOnly(event)

\* Times typed into the time field, ms.
EditorTimes == {4000}

\* handleTimeChange: setTime(newTime); onUpdate({ time: newTime })
handleTimeChange ==
    \E newTime \in EditorTimes :
        /\ selectedCommand # NoCommand
        /\ EditorUpdate([time |-> newTime], "editTime")

\* The parameter controls of the Cue editor and the values they pass.
ParameterUpdates ==
    {[cueType |-> "State.Cue2"], [cueValue |-> TRUE]}

\* The one parameter an update names.
EditedParameter(parameterUpdates) ==
    CHOOSE f \in DOMAIN parameterUpdates : TRUE

EditEvent(parameterUpdates) == "edit " \o EditedParameter(parameterUpdates)

\* handleParameterUpdate: onUpdate({ parameters: { ...command.parameters,
\* ...parameterUpdates } }), command being the prop of the editor
handleParameterUpdate ==
    \E parameterUpdates \in ParameterUpdates :
        /\ selectedCommand # NoCommand
        /\ selectedCommand.type = "Cue"
        /\ EditorUpdate([parameters |-> Spread(selectedCommand.parameters,
                                               parameterUpdates)],
                        EditEvent(parameterUpdates))

\* onClose of the editor: setSelectedCommand(null)
handleEditorClose ==
    /\ selectedCommand # NoCommand
    /\ selectedCommand' = NoCommand
    /\ UNCHANGED <<commands, isDragging, dragCommand, dragOffset, propVars,
                   viewVars, analysisVars>>
    /\ lastEvent' = Event("closeEditor")

\* ------------------------------------------- Timeline, the earlier revision
\* The earlier Timeline maps times and pixels without a test of the duration.
\* Its numbers are the finite ones above and the three values a division by
\* zero produces, kept as integers outside the range of every finite value.
NaN == -1073741824

Infinity == 1073741823

IsFinite(x) == x # NaN /\ x # Infinity /\ x # -Infinity

\* a - b for a finite a
Minus(a, b) ==
    IF b = NaN THEN NaN
    ELSE IF b = Infinity THEN -Infinity
    ELSE IF b = -Infinity THEN Infinity
    ELSE a - b

\* Math.max(800, duration * 100 * zoom)
EarlyTimelineWidth(dur, z) == Max(8000, MulDiv(dur, z, 1000))

\* (time / duration) * timelineWidth
EarlyTimeToPixel(time, dur, width) ==
    IF time = NaN THEN NaN
    ELSE IF dur = 0
         THEN IF time = 0 THEN NaN
              ELSE IF time > 0 THEN Infinity ELSE -Infinity
    ELSE IF ~IsFinite(time) THEN time
    ELSE MulDiv(time, width, dur)

\* (pixel / timelineWidth) * duration
EarlyPixelToTime(pixel, dur, width) ==
    IF pixel = NaN THEN NaN
    ELSE IF ~IsFinite(pixel) THEN (IF dur = 0 THEN NaN ELSE pixel)
    ELSE MulDiv(pixel, dur, width)

\* Math.max(0, Math.min(duration, newTime))
EarlyClampTime(time, dur) ==
    IF time = NaN THEN NaN ELSE Max(0, Min(dur, time))

\* The orders of a list
Orders(list) ==
    {[k \in DOMAIN list |-> list[f[k]]] :
        f \in {g \in [DOMAIN list -> DOMAIN list] :
                  \A i, j \in DOMAIN list : i # j => g[i] # g[j]}}

\* updateCommand with a time that may be NaN: a.time - b.time is then NaN
\* and the order Array.prototype.sort leaves is any.
EarlyUpdateCommand(commandId, time) ==
    LET updated == [k \in DOMAIN commands |->
                       IF commands[k].id = commandId
                       THEN [commands[k] EXCEPT !.time = time]
                       ELSE commands[k]]
    IN  IF \E k \in DOMAIN updated : updated[k].time = NaN
        THEN Orders(updated)
        ELSE {SortByTime(updated)}

\* Pointer positions e.clientX - rect.left during a drag: left of the
\* timeline and inside it.
EarlyDragXs == {-500, 2100}

\* handleTimelineClick of the earlier revision
EarlyTimelineClick ==
    \E x \in PointerXs :
        /\ ~isDragging
        /\ currentTime' = EarlyClampTime(
                              EarlyPixelToTime(x, duration,
                                  EarlyTimelineWidth(duration, zoom)),
                              duration)
        /\ UNCHANGED <<duration, isPlaying, zoom>>
        /\ PropsOnly("earlyClick")

\* handleCommandMouseDown of the earlier revision:
\* setDragOffset(e.clientX - rect.left - timeToPixel(command.time))
EarlyCommandMouseDown ==
    \E k \in DOMAIN commands, x \in {2100} :
        /\ ~isDragging
        /\ isDragging' = TRUE
        /\ dragCommand' = commands[k]
        /\ dragOffset' = Minus(x, EarlyTimeToPixel(commands[k].time, duration,
                                       EarlyTimelineWidth(duration, zoom)))
        /\ UNCHANGED <<commands, selectedCommand, propVars, viewVars,
                       analysisVars>>
        /\ lastEvent' = Event("earlyMouseDown")

\* handleMouseMove of the earlier revision
EarlyMouseMove ==
    \E x \in EarlyDragXs :
        /\ isDragging
        /\ dragCommand # NoCommand
        /\ commands' \in
              EarlyUpdateCommand(dragCommand.id,
                  EarlyClampTime(
                      EarlyPixelToTime(Minus(x, dragOffset), duration,
                                       EarlyTimelineWidth(duration, zoom)),
                      duration))
        /\ UNCHANGED <<isDragging, dragCommand, dragOffset, selectedCommand,
                       propVars, viewVars, analysisVars>>
        /\ lastEvent' = Event("earlyMouseMove")

\* --------------------------------------------------------- specifications
\* Source changes while passes are in flight.
NextAnalysis ==
    \/ SourceChangeIn(Library, MaxPasses)
    \/ \E p \in DOMAIN passes : FetchDone(p)
    \/ \E p \in DOMAIN passes : FetchFail(p)
    \/ \E p \in DOMAIN passes : DecodeFail(p)
    \/ \E p \in DOMAIN passes : DecodeDone(p)
    \/ \E p \in DOMAIN passes : CloseDone(p)

SpecAnalysis == Init /\ [][NextAnalysis]_vars

\* One pass over any buffer of the bounded family.
NextWave ==
    \/ SourceChangeIn(AllSources, 1)
    \/ \E p \in DOMAIN passes : FetchDone(p)
    \/ \E p \in DOMAIN passes : FetchFail(p)
    \/ \E p \in DOMAIN passes : DecodeFail(p)
    \/ \E p \in DOMAIN passes : DecodeDone(p)
    \/ \E p \in DOMAIN passes : CloseDone(p)

SpecWave == Init /\ [][NextWave]_vars

\* The basic revision of the player, loading sources of the library.
NextBasic ==
    \/ BasicLoadedMetadataIn(Library, MaxPasses)
    \/ \E p \in DOMAIN passes : BasicFetchDone(p)
    \/ \E p \in DOMAIN passes : BasicFail(p)
    \/ \E p \in DOMAIN passes : BasicDecodeDone(p)

SpecBasic == Init /\ [][NextBasic]_vars

\* The command list under the effects panel, the import panel and the drag.
NextEditor ==
    \/ TickTo(EditorMaxNow)
    \/ addCommand
    \/ deleteCommand
    \/ handleImportProject
    \/ handleImportCommandsIn(EditorScripts)
    \/ handleCommandMouseDown
    \/ handleMouseMove
    \/ handleMouseUp

\* The view of the editor is the timeline.
InitEditor == Init /\ view = "timeline"

SpecEditor == InitEditor /\ [][NextEditor]_vars

\* The command list of one editing instant, with scripts of several commands.
NextLayout ==
    \/ addCommand
    \/ deleteCommand
    \/ handleImportProject
    \/ handleImportCommandsIn(Scripts)
    \/ handleCommandMouseDown
    \/ handleMouseMove
    \/ handleMouseUp

SpecLayout == InitEditor /\ [][NextLayout]_vars

\* The effects panel: single commands and the prestaging button.
NextPanel ==
    \/ TickTo(EditorMaxNow)
    \/ addCommand
    \/ GeneratePrestaging
    \/ deleteCommand
    \/ handleImportProject

SpecPanel == InitEditor /\ [][NextPanel]_vars

\* A project is opened, a command is selected and edited in the command
\* editor, and dragged on the timeline.
NextCommandEditor ==
    \/ handleImportProject
    \/ handleCommandClick
    \/ handleTimeChange
    \/ handleParameterUpdate
    \/ handleEditorClose
    \/ deleteCommand
    \/ handleCommandMouseDown
    \/ handleMouseMove
    \/ handleMouseUp

SpecCommandEditor == InitEditor /\ [][NextCommandEditor]_vars

\* One scrolling view under playback, scrolling, the clock and the seeks.
ViewDurations == {0, 10000}

ViewZooms == {1000, 1500}

Tick == TickTo(MaxNow)

NextView ==
    \/ Tick
    \/ \E d \in ViewDurations : DurationChange(d)
    \/ togglePlay
    \/ TimeUpdate
    \/ ZoomChange((IF view = "timeline" THEN TimelineZooms ELSE WaveformZooms)
                     \cap ViewZooms)
    \/ UserScroll
    \/ BrowserScroll
    \/ TimerFire
    \/ view = "timeline" /\ handleTimelineClick
    \/ view = "waveform" /\ handleSeek
    \/ FollowPlayhead

SpecView == Init /\ [][NextView]_vars

\* The same, with a clock that keeps running and timeouts that fire.
SpecViewFair == SpecView /\ WF_vars(Tick) /\ WF_vars(TimerFire)

\* The player loading songs while the user seeks: clicks, keys, beat jumps.
NextSeek ==
    \/ SourceChangeIn(Songs, MaxPasses)
    \/ \E p \in DOMAIN passes : FetchDone(p)
    \/ \E p \in DOMAIN passes : DecodeDone(p)
    \/ \E p \in DOMAIN passes : CloseDone(p)
    \/ audioSrc.ok /\ DurationChange(audioSrc.buf.dur)
    \/ handleTimelineClick
    \/ handleSeek
    \/ goToNextBeat
    \/ goToPreviousBeat
    \/ KeyArrowLeft
    \/ KeyArrowRight
    \/ KeyHome

\* The view of the player is the waveform.
InitSeek == Init /\ view = "waveform"

SpecSeek == InitSeek /\ [][NextSeek]_vars

\* Beat navigation from the keyboard.
NextKeys ==
    \/ SourceChangeIn(Songs, MaxPasses)
    \/ \E p \in DOMAIN passes : FetchDone(p)
    \/ \E p \in DOMAIN passes : DecodeDone(p)
    \/ \E p \in DOMAIN passes : CloseDone(p)
    \/ audioSrc.ok /\ DurationChange(audioSrc.buf.dur)
    \/ KeyCtrlArrowRight
    \/ KeyCtrlArrowLeft
    \/ KeyHome

SpecKeys == InitSeek /\ [][NextKeys]_vars

\* The zoom buttons of both views and songs of several lengths: a source
\* without duration, a ten-second clip and a two-minute song.
ZoomDurations == {0, 10000, 120000}

NextZoom ==
    \/ \E d \in ZoomDurations : DurationChange(d)
    \/ ZoomChange(TimelineZooms)
    \/ ZoomChange(WaveformZooms)

SpecZoom == Init /\ [][NextZoom]_vars

\* The earlier Timeline under clicks, drags and imports.
NextEarlyTimeline ==
    \/ handleImportProject
    \/ \E d \in ViewDurations : DurationChange(d)
    \/ EarlyTimelineClick
    \/ EarlyCommandMouseDown
    \/ EarlyMouseMove
    \/ handleMouseUp

\* The view is the timeline.
InitEarlyTimeline == Init /\ view = "timeline"

SpecEarlyTimeline == InitEarlyTimeline /\ [][NextEarlyTimeline]_vars

\* -------------------------------------------------------------- properties
\* What a finished pass stored.
Stored(pass) ==
    IF pass.wrote = "analysis" THEN Analyze(pass.src.buf) ELSE Fallback

AllDone ==
    /\ passes # <<>>
    /\ \A p \in DOMAIN passes : passes[p].pc \in {"done", "failed"}

LastPass == passes[Len(passes)]

\* C1: once every pass has completed, in whichever order, waveformData and
\* beatData are the results of the most recently requested source; an earlier
\* pass that completes later does not overwrite them.
C1_LatestRequestWins ==
    AllDone =>
        /\ waveformData = Stored(LastPass).waveform
        /\ beatData = Stored(LastPass).beats

\* The pass whose successful analysis is the stored one (a single pass).
Analysed ==
    /\ Len(passes) = 1
    /\ passes[1].wrote = "analysis"

RECURSIVE AllZero(_)
AllZero(runs) ==
    runs = <<>> \/ (Head(runs).v = 0 /\ AllZero(Tail(runs)))

\* C8: after a successful analysis the stored waveform has at most 1500
\* points, each in [0, 1]; one of them is 1 unless every sample is zero, and
\* then every point is 0; 2048 zero samples give one or two zeros and no beat.
C8_WaveformNormalised ==
    Analysed =>
        /\ Len(waveformData) <= MaxWaveformPoints
        /\ \A k \in DOMAIN waveformData :
              waveformData[k] >= 0 /\ waveformData[k] <= Unit
        /\ IF AllZero(passes[1].src.buf.runs)
           THEN \A k \in DOMAIN waveformData : waveformData[k] = 0
           ELSE \E k \in DOMAIN waveformData : waveformData[k] = Unit
        /\ passes[1].src.buf = Silent2048 =>
              /\ Len(waveformData) \in {1, 2}
              /\ beatData = <<>>

\* C9: the number of waveform points is min(1500, floor(sampleCount / 1024)),
\* and 1 for a buffer of fewer than 1024 samples.
C9_BlockCount ==
    Analysed =>
        Len(waveformData) =
            IF BufLen(passes[1].src.buf) < BlockDivisor
            THEN 1
            ELSE Min(MaxWaveformPoints,
                     BufLen(passes[1].src.buf) \div BlockDivisor)

\* C10: whenever an analysis pass fails, the stored waveform becomes the
\* fallback of 100 points of 0.1 and the stored beat list becomes empty.
C10_FailureStoresFallback ==
    [][\A p \in DOMAIN passes :
          (passes[p].pc # "failed" /\ passes'[p].pc = "failed") =>
              /\ waveformData' = [k \in 1..FallbackLength |-> Unit \div 10]
              /\ beatData' = <<>>]_vars

Intersect(a, b) == Max(a.time, b.time) < Min(CommandEnd(a), CommandEnd(b))

\* C2: in every row of every lane no two commands have intersecting
\* intervals [time, time + duration), and each command of a row ends at or
\* before the start of the next.
C2_RowsNeverOverlap ==
    \A lightType \in LightTypes :
        LET rows == organizeCommandsIntoTracks(commands, lightType)
        IN  \A r \in DOMAIN rows :
                /\ \A i, j \in DOMAIN rows[r] :
                       i < j => ~Intersect(rows[r][i], rows[r][j])
                /\ \A i \in 1..(Len(rows[r]) - 1) :
                       CommandEnd(rows[r][i]) <= rows[r][i + 1].time

C2_SharedRowAndSecondRow ==
    \E lightType \in LightTypes :
        LET rows == organizeCommandsIntoTracks(commands, lightType)
        IN  /\ Len(rows) >= 2
            /\ \E r \in DOMAIN rows : Len(rows[r]) >= 2

\* The largest number of commands whose intervals hold one instant; it is
\* reached at the start of one of them.
MaxOverlap(cmds) ==
    LET depth(k) == Cardinality({m \in DOMAIN cmds :
                        /\ cmds[m].time <= cmds[k].time
                        /\ cmds[k].time < CommandEnd(cmds[m])})
    IN  IF \A k \in DOMAIN cmds : depth(k) = 0 THEN 0
        ELSE CHOOSE d \in 1..Len(cmds) :
                 /\ \E k \in DOMAIN cmds : depth(k) = d
                 /\ \A k \in DOMAIN cmds : depth(k) <= d

\* C3: the number of rows of a lane equals the largest number of the lane's
\* commands whose intervals overlap at one instant.
C3_RowsEqualMaxOverlap ==
    \A lightType \in LightTypes :
        Len(organizeCommandsIntoTracks(commands, lightType))
            = MaxOverlap(LightCommands(commands, lightType))

\* C4: a scroll event of the container, from the user or from a scrollTo,
\* sets isUserScrolling and records the time of the event in the same step;
\* in manual override a playhead update of the playing audio changes neither
\* the scroll position nor the target of a scrollTo.
C4_ScrollSuspendsFollowing ==
    [][/\ lastEvent'.name \in {"scroll", "scrollTo"} =>
              isUserScrolling' /\ lastScrollTime' = now'
       /\ (isUserScrolling /\ lastEvent'.name = "timeUpdate") =>
              scrollLeft' = scrollLeft /\ scrollTarget' = scrollTarget]_vars

\* In manual override the playing audio has taken the playhead out of the
\* visible part of the view, and no scrollTo has been started.
C4_PlayheadLeftViewInOverride ==
    /\ lastEvent.name = "timeUpdate"
    /\ lastEvent.scrolling
    /\ isUserScrolling
    /\ isPlaying
    /\ timeToPixel(currentTime, duration, ViewWidth(view, duration, zoom))
          > scrollLeft + ContainerWidth
    /\ scrollTarget = -1

ClockTimes == {k * TickMs : k \in 0..(MaxNow \div TickMs)}

\* C5: from manual override with the last scroll event at time t, the view
\* comes back to following unless a later scroll event arrives.
C5_OverrideEnds ==
    \A t \in ClockTimes :
        (isUserScrolling /\ lastScrollTime = t)
            ~> (~isUserScrolling \/ lastScrollTime # t)

\* The timeout has fired in manual override and has cleared the flag.
C5_TimerResumedFollowing ==
    /\ lastEvent.name = "timer"
    /\ lastEvent.scrolling
    /\ ~isUserScrolling
    /\ now - lastScrollTime > QuietMs

\* C6: a timeline click, a waveform click or the Follow Playhead button of
\* the view leaves the view following, with no quiet-period timeout pending.
C6_SeekResumesFollowing ==
    [][(\/ lastEvent'.name = "followPlayhead"
        \/ view = "timeline" /\ lastEvent'.name = "timelineClick"
        \/ view = "waveform" /\ lastEvent'.name = "waveformClick") =>
            ~isUserScrolling' /\ timers' = NoTimer]_vars

\* A click has ended a manual override in the very millisecond of the last
\* scroll event.
C6_ClickRightAfterScroll ==
    /\ lastEvent.name \in {"timelineClick", "waveformClick"}
    /\ lastEvent.scrolling
    /\ ~isUserScrolling
    /\ now = lastScrollTime
    /\ timers = NoTimer

SeekEvents ==
    {"timelineClick", "waveformClick", "nextBeat", "previousBeat",
     "arrowLeft", "arrowRight", "home"}

\* C7: the time set by a timeline click, a waveform click, an arrow or Home
\* key or a beat jump, and the time given to the dragged command by a pointer
\* move, lies in [0, duration].
C7_EmittedTimesInRange ==
    [][/\ lastEvent'.name \in SeekEvents => currentTime' \in 0..duration
       /\ lastEvent'.name = "mouseMove" =>
              \A k \in DOMAIN commands' :
                  commands'[k].id = dragCommand.id =>
                      commands'[k].time \in 0..duration]_vars

\* C11: every beat of a stored analysis has a strength energy / previousEnergy
\* with previousEnergy > 0, hence finite, and greater than 1.
C11_BeatStrengthFinite ==
    Analysed =>
        \A k \in DOMAIN beatData :
            /\ beatData[k].strength.den > 0
            /\ beatData[k].strength.num > beatData[k].strength.den

\* C12: the beats of a stored analysis are strictly ascending in time and
\* every beat time lies in [0, audioBuffer.duration).
C12_BeatsAscending ==
    Analysed =>
        /\ \A k \in 1..(Len(beatData) - 1) :
               beatData[k].time < beatData[k + 1].time
        /\ \A k \in DOMAIN beatData :
               beatData[k].time >= 0 /\ beatData[k].time < passes[1].src.buf.dur

\* An analysis has stored two beats or more, one of them in the last block.
C12_SeveralBeats ==
    /\ Analysed
    /\ Len(beatData) >= 2
    /\ \E k \in DOMAIN beatData :
           beatData[k].time + passes[1].src.buf.dur
                 \div BlockCount(BufLen(passes[1].src.buf))
              >= passes[1].src.buf.dur - 1
\* C13: the track width of the timeline and of the waveform alike is
\* duration * 60 * zoom clamped to [800, 20000] px; a 120 s song at zoom 1 has a
\* 7200 px track and its 60 s mark lies at 3600 px.
ClampedWidth(dur, z) == Max(8000, Min(200000, ScaledWidth(dur, z)))

C13_TrackWidthClamped ==
    /\ timelineWidth(duration, zoom) = ClampedWidth(duration, zoom)
    /\ waveformDisplayWidth(duration, zoom) = ClampedWidth(duration, zoom)
    /\ timelineWidth(duration, zoom) >= 8000
    /\ timelineWidth(duration, zoom) <= 200000
    /\ duration = 120000 /\ zoom = 1000 =>
           /\ timelineWidth(duration, zoom) = 72000
           /\ waveformDisplayWidth(duration, zoom) = 72000
           /\ timeToPixel(60000, duration, timelineWidth(duration, zoom)) = 36000
\* C14: with a duration of 0 the mappings between times and pixels return
\* exactly 0, in the current Timeline and in the earlier one, and no click or
\* drag leaves a value that a division by the zero duration produced.
C14_ZeroDurationMapsToZero ==
    duration = 0 =>
        /\ \A t \in {currentTime} \cup {commands[k].time : k \in DOMAIN commands} :
               /\ timeToPixel(t, duration, timelineWidth(duration, zoom)) = 0
               /\ EarlyTimeToPixel(t, duration, EarlyTimelineWidth(duration, zoom)) = 0
        /\ \A x \in PointerXs :
               /\ pixelToTime(x, duration, timelineWidth(duration, zoom)) = 0
               /\ EarlyPixelToTime(x, duration, EarlyTimelineWidth(duration, zoom)) = 0
        /\ IsFinite(currentTime)
        /\ IsFinite(dragOffset)
        /\ \A k \in DOMAIN commands : IsFinite(commands[k].time)
\* C15: for a duration > 0 and a time t in [0, duration],
\* pixelToTime(timeToPixel(t)) is t up to the rounding of the two mappings (one
\* step of the pixel grid, taken back to time, and one of the time grid), at
\* every zoom the buttons reach, the clamped widths included.
TimeSamples(dur) == {0, 1, dur \div 3, dur \div 2, dur - 1, dur}

RoundingSlack(dur, width) == dur \div width + 1

RoundTrip(t, dur, width) == pixelToTime(timeToPixel(t, dur, width), dur, width)

C15_RoundTrip ==
    duration > 0 =>
        \A t \in TimeSamples(duration) :
            Abs(RoundTrip(t, duration, timelineWidth(duration, zoom)) - t)
                <= RoundingSlack(duration, timelineWidth(duration, zoom))

C15_RoundTripAtWidthLimit ==
    /\ duration > 0
    /\ lastEvent.name = "zoom"
    /\ ScaledWidth(duration, zoom) > 200000
    /\ timelineWidth(duration, zoom) = 200000
    /\ RoundTrip(duration \div 2, duration, 200000) \in
           (duration \div 2 - 1)..(duration \div 2)
\* C16: from zoom 1, after any sequence of zoom in, zoom out and reset from
\* the buttons of the waveform (factor 1.2) and of the timeline (factor 1.5),
\* zoom lies in [0.1, 4.0], and the reset of either view sets exactly 1.
C16_ZoomInRange ==
    /\ zoom >= 100
    /\ zoom <= 4000
    /\ 1000 \in TimelineZooms \cap WaveformZooms
    /\ \A z \in TimelineZooms \cup WaveformZooms : z >= 100 /\ z <= 4000

C16_ZoomAtUpperLimit ==
    /\ lastEvent.name = "zoom"
    /\ zoom = 4000
    /\ (zoom * 6) \div 5 > 4000
    /\ Min(4000, (zoom * 6) \div 5) = 4000
\* C17: after any sequence of addCommand, updateCommand (the drag included),
\* deleteCommand, handleImportCommands and handleImportProject the command list
\* is sorted ascending by time.
C17_CommandsSorted ==
    \A k \in 1..(Len(commands) - 1) : commands[k].time <= commands[k + 1].time
\* C18: no two commands of the list share an id, after any sequence of
\* addCommand, updateCommand, deleteCommand and the imports.
CommandIds == {commands[k].id : k \in DOMAIN commands}

C18_IdsUnique ==
    \A j, k \in DOMAIN commands : j # k => commands[j].id # commands[k].id
\* C19: isLoadingWaveform is true in every state where at least one analysis
\* pass is in flight (two overlapping passes of which one has completed
\* included) and false once none is in flight.
InFlight(pass) == pass.pc \in {"fetch", "decode", "close"}

C19_LoadingWhileInFlight ==
    isLoadingWaveform = (\E p \in DOMAIN passes : InFlight(passes[p]))
\* C20: at most one quiet-period timeout is pending; each scroll event
\* leaves exactly the timeout it started, due 2.1 s later, whatever was
\* pending before; and the timeout never returns the view to following less
\* than 2 s after the most recent scroll.
ScrollEvents == {"scroll", "scrollTo"}

C20_OneQuietTimer ==
    /\ [](Cardinality(timers) <= 1)
    /\ [][/\ lastEvent'.name \in ScrollEvents =>
                 timers' = {now' + QuietTimerMs}
          /\ lastEvent'.name = "timer" /\ isUserScrolling /\ ~isUserScrolling' =>
                 now' - lastScrollTime' >= QuietMs]_vars

\* A scroll arrived in manual override, with the timeout of an earlier scroll
\* pending, and left its own timeout.
C20_ScrollRestartedTimer ==
    /\ lastEvent.name \in ScrollEvents
    /\ lastEvent.scrolling
    /\ now > 0
    /\ lastScrollTime = now
    /\ timers = {now + QuietTimerMs}
\* C21: every pointer move of a drag sets the time of the dragged command to
\* (pointerX - capturedOffset) * duration / timelineWidth, kept within
\* [0, duration] (0 when there is no duration); with an offset of 10 px, the
\* pointer at 210 px and 0.1 s per pixel the time is 20.0 s.
DragTime(pointer) ==
    IF duration = 0 THEN 0
    ELSE Max(0, Min(duration,
             MulDiv(pointer - dragOffset, duration, timelineWidth(duration, zoom))))

C21_DragUpdatesTime ==
    [][lastEvent'.name = "mouseMove" =>
          \E pointer \in PointerXs :
              \A k \in DOMAIN commands' :
                  commands'[k].id = dragCommand.id =>
                      commands'[k].time = DragTime(pointer)]_vars

C21_DraggedToTwentySeconds ==
    /\ lastEvent.name = "mouseMove"
    /\ isDragging
    /\ dragOffset = 100
    /\ duration = 2000000
    /\ timelineWidth(duration, zoom) = 200000
    /\ DragTime(2100) = 20000
    /\ \E k \in DOMAIN commands :
           commands[k].id = dragCommand.id /\ commands[k].time = 20000
\* C22: a drag is under way exactly when there is a dragged command (there
\* is a single one), and the mouse up ends the drag and changes no command:
\* the dragged command keeps the time of the last mouse move.
C22_MouseUpKeepsTimes ==
    /\ [](isDragging <=> dragCommand # NoCommand)
    /\ [][lastEvent'.name = "mouseUp" =>
              /\ ~isDragging'
              /\ dragCommand' = NoCommand
              /\ dragOffset' = 0
              /\ commands' = commands]_vars

\* The drag that took a command to 20 s has ended.
C22_DroppedAtTwentySeconds ==
    /\ lastEvent.name = "mouseUp"
    /\ ~isDragging
    /\ dragCommand = NoCommand
    /\ duration = 2000000
    /\ \E k \in DOMAIN commands :
           commands[k].id \in {"c", "d"} /\ commands[k].time = 20000
\* C23: on a time update while the view follows, plays and has a duration:
\* if the playhead is closer than 10% of the container width to a visible
\* edge, or outside, the view asks for a scroll to
\* max(0, playhead - containerWidth / 2), never negative; otherwise it asks
\* for none.  No handler of the props asks for a scroll when not playing.
PlayheadPixel == MulDiv(currentTime, ViewWidth(view, duration, zoom), duration)

NearEdge(left) ==
    \/ PlayheadPixel < left + ContainerWidth \div 10
    \/ PlayheadPixel > left + ContainerWidth - ContainerWidth \div 10

ScrollingEvents == {"scroll", "scrollTo", "followPlayhead"}

C23_AutoFollowRecenters ==
    [][/\ (/\ lastEvent'.name = "timeUpdate"
            /\ isPlaying' /\ ~isUserScrolling' /\ duration' > 0) =>
              /\ NearEdge(scrollLeft)' =>
                    /\ Max(0, PlayheadPixel' - ContainerWidth \div 2) >= 0
                    /\ scrollTarget' =
                          ScrollTo(Max(0, PlayheadPixel' - ContainerWidth \div 2),
                                   ViewWidth(view, duration, zoom)')
              /\ ~NearEdge(scrollLeft)' => scrollTarget' = scrollTarget
       /\ (~isPlaying' /\ lastEvent'.name \notin ScrollingEvents) =>
              scrollTarget' = scrollTarget]_vars

\* A time update took the playhead past the right margin of a following
\* view, which asked for a scroll; the browser can carry it as far as the
\* end of the track.
C23_RecenteredNearRightEdge ==
    /\ lastEvent.name = "timeUpdate"
    /\ isPlaying /\ ~isUserScrolling /\ duration > 0
    /\ scrollLeft = 0
    /\ PlayheadPixel > ContainerWidth - ContainerWidth \div 10
    /\ scrollTarget = Min(PlayheadPixel - ContainerWidth \div 2,
                          ViewWidth(view, duration, zoom) - ContainerWidth)
\* C24: with prevEnergy 0 before block 0 and energy * 0.7 + prevEnergy * 0.3
\* after every block, a beat or not, the beats of a stored analysis are, in
\* order, those of the blocks i whose rms energy is > prevEnergy * 1.3 and
\* > 0.1, each at time (i / blockCount) * totalDuration.
Smoothed(buf, i, prevEnergy) == (BlockRms(buf, i) * 7 + prevEnergy * 3) \div 10

\* The values of prevEnergy before the blocks lo .. hi - 1, prevEnergy being
\* the one before block lo.
RECURSIVE EnvelopeFrom(_, _, _, _)
EnvelopeFrom(buf, lo, hi, prevEnergy) ==
    IF lo >= hi THEN <<>>
    ELSE IF hi = lo + 1 THEN <<prevEnergy>>
    ELSE LET mid == (lo + hi) \div 2
             first == EnvelopeFrom(buf, lo, mid, prevEnergy)
         IN  first \o EnvelopeFrom(buf, mid, hi,
                                   Smoothed(buf, mid - 1, first[Len(first)]))

Envelope(buf) == EnvelopeFrom(buf, 0, BlockCount(BufLen(buf)), 0)

BeatBlocks(buf) ==
    LET env == Envelope(buf)
    IN  {i \in 0..(BlockCount(BufLen(buf)) - 1) :
            /\ BlockRms(buf, i) * 10 > env[i + 1] * 13
            /\ BlockRms(buf, i) * 10 > Unit}

C24_BeatsFollowEnvelope ==
    Analysed =>
        LET buf == passes[1].src.buf
            blocks == BeatBlocks(buf)
        IN  /\ Len(beatData) = Cardinality(blocks)
            /\ \A k \in DOMAIN beatData :
                   \E i \in blocks :
                       /\ Cardinality({j \in blocks : j < i}) = k - 1
                       /\ beatData[k].time = (i * buf.dur) \div BlockCount(BufLen(buf))

\* A beat on block 0 and a second block that is loud but does not rise above
\* the smoothed energy.
C24_LoudBlockAfterBeat ==
    /\ Analysed
    /\ BlockCount(BufLen(passes[1].src.buf)) = 2
    /\ BeatBlocks(passes[1].src.buf) = {0}
    /\ BlockRms(passes[1].src.buf, 1) * 10 > Unit
    /\ Len(beatData) = 1
    /\ beatData[1].time = 0
\* C25: the commands of a lane are taken in ascending start time, ties in
\* input order; each goes to the lowest row whose last command so far ends at
\* or before its start, and to a new row only if there is none.  Point
\* effects at 1.0 s and 1.05 s take two rows and a third at 2.0 s the first.
\* RowOf gives, for each position of the lane in time order, the row the rule
\* assigns.
RowOf(lane) ==
    LET rowOf[p \in DOMAIN lane] ==
            LET used == {rowOf[q] : q \in 1..(p - 1)}
                lastIn(r) == CHOOSE q \in 1..(p - 1) :
                                 /\ rowOf[q] = r
                                 /\ \A u \in 1..(p - 1) : rowOf[u] = r => u <= q
                fits == {r \in used : CommandEnd(lane[lastIn(r)]) <= lane[p].time}
            IN  IF fits = {} THEN Cardinality(used) + 1
                ELSE CHOOSE r \in fits : \A v \in fits : r <= v
    IN  rowOf

InTimeOrder(lane, cmds) ==
    /\ Len(lane) = Len(cmds)
    /\ \A p \in 1..(Len(lane) - 1) : lane[p].time <= lane[p + 1].time
    /\ \E f \in [DOMAIN lane -> DOMAIN cmds] :
           /\ \A p \in DOMAIN lane : lane[p] = cmds[f[p]]
           /\ \A p, q \in DOMAIN lane : p # q => f[p] # f[q]
           /\ \A p, q \in DOMAIN lane :
                  p < q /\ lane[p].time = lane[q].time => f[p] < f[q]

C25_FirstFitRows ==
    \A lightType \in LightTypes :
        LET cmds == LightCommands(commands, lightType)
            lane == SortByTime(cmds)
            rowOf == RowOf(lane)
            rows == organizeCommandsIntoTracks(commands, lightType)
        IN  /\ InTimeOrder(lane, cmds)
            /\ Len(rows) = Cardinality({rowOf[p] : p \in DOMAIN lane})
            /\ \A r \in DOMAIN rows :
                   rows[r] = [k \in 1..Cardinality({p \in DOMAIN lane : rowOf[p] = r}) |->
                                 lane[CHOOSE p \in DOMAIN lane :
                                          /\ rowOf[p] = r
                                          /\ Cardinality({q \in 1..p : rowOf[q] = r}) = k]]

\* The three point effects of the script on lane BarsA: the first and the
\* third share row 1, the second has row 2.
C25_ThreePointEffects ==
    LET rows == organizeCommandsIntoTracks(commands, "BarsA")
    IN  /\ Len(commands) = 3
        /\ Len(rows) = 2
        /\ Len(rows[1]) = 2 /\ Len(rows[2]) = 1
        /\ rows[1][1].time = 1000 /\ getCommandDuration(rows[1][1]) = 100
        /\ rows[2][1].time = 1050 /\ getCommandDuration(rows[2][1]) = 100
        /\ rows[1][2].time = 2000
\* C26: the derived duration of every command is strictly positive, whatever
\* its type and parameters, so no row holds two commands with the same start
\* time.
C26_DurationsPositive ==
    /\ \A k \in DOMAIN commands : getCommandDuration(commands[k]) > 0
    /\ \A lightType \in LightTypes :
           LET rows == organizeCommandsIntoTracks(commands, lightType)
           IN  \A r \in DOMAIN rows :
                   \A i, j \in DOMAIN rows[r] :
                       i < j => rows[r][i].time # rows[r][j].time
\* C27: when one event handler calls addCommand k times (Generate Prestaging
\* calls it 20 times), the list afterwards holds the commands it held before
\* and the k new ones, each with an id of its own.
C27_AllPrestagingCommandsAdded ==
    [][lastEvent'.name = "generatePrestaging" =>
          /\ Len(commands') = Len(commands) + Len(PrestagingCommands)
          /\ \A k \in DOMAIN commands :
                 \E j \in DOMAIN commands' : commands'[j] = commands[k]
          /\ \A i, j \in DOMAIN commands' :
                 i # j => commands'[i].id # commands'[j].id]_vars
\* C28: a parameter edit of the command editor changes only the edited
\* parameter of the selected command: its time and its other parameters keep
\* the values they have in the command list at the time of the edit.
C28_EditChangesOneParameter ==
    [][\A parameterUpdates \in ParameterUpdates :
          lastEvent'.name = EditEvent(parameterUpdates) =>
              \A k \in DOMAIN commands, j \in DOMAIN commands' :
                  (/\ commands[k].id = selectedCommand.id
                   /\ commands'[j].id = selectedCommand.id)
                  => /\ commands'[j].time = commands[k].time
                     /\ \A g \in DOMAIN commands[k].parameters
                                    \ {EditedParameter(parameterUpdates)} :
                            commands'[j].parameters[g] = commands[k].parameters[g]]_vars
\* C29: a scroll the controller performs itself (the scrollTo of the
\* auto-follow recentering or of Follow Playhead) never moves the view to
\* manual override: while the view follows, the scroll event of a scrollTo
\* leaves it following.
C29_OwnScrollKeepsFollowing ==
    [][(lastEvent'.name = "scrollTo" /\ ~isUserScrolling) => ~isUserScrolling']_vars
\* C30: after Ctrl/Cmd+ArrowRight with a beat later than currentTime + 0.1,
\* currentTime is the time of the first such beat; after Ctrl/Cmd+ArrowLeft
\* it is the time of the last beat earlier than currentTime - 0.1, or 0 if
\* there is none; in either order of the two keydown listeners.
C30_CtrlArrowJumpsToBeat ==
    [][/\ (lastEvent'.name = "ctrlArrowRight" /\ NextBeats # <<>>)
           => currentTime' = Head(NextBeats).time
       /\ (lastEvent'.name = "ctrlArrowLeft" /\ beatData # <<>>)
           => currentTime' = IF PreviousBeats # <<>>
                             THEN PreviousBeats[Len(PreviousBeats)].time
                             ELSE 0]_vars
====
